---- MODULE Spec2Model ----
(***************************************************************************)
(* Model of the movie backend (src/backend/server.py): the users,          *)
(* favorites, watchlists and reviews collections, the request handlers     *)
(* that read and write them, and the recommendation handler with the       *)
(* catalog-provider calls it makes.  Every request is split at its `await` *)
(* points, the one in the get_current_user dependency included, so         *)
(* requests of different clients can interleave exactly where the          *)
(* coroutines can.                                                         *)
(***************************************************************************)
EXTENDS Integers, Sequences, FiniteSets, TLC

VARIABLES users, favorites, watchlists, reviews, pc, local, resp

vars == <<users, favorites, watchlists, reviews, pc, local, resp>>
store == <<users, favorites, watchlists, reviews>>

(***************************************************************************)
(* Bounds of the model.                                                    *)
(***************************************************************************)
MaxUsers == 2
MaxFavorites == 2
MaxGenres == 2
MaxWatchlists == 1
MaxWatchlistMovies == 2
MaxReviews == 2

Procs == {1, 2}
SeqProcs == {1}
Emails == {"a@x.io", "b@x.io"}
Passwords == {"pw1"}
Salts == {"s1"}
Movies == {1, 2}
Genres == {0, 1, 2}
UserIds == 1..MaxUsers
RatingInputs == {-1, 0, 10, 11}
ReviewTexts == {"null", "good"}
LoginPasswords == Passwords \cup {"pw2"}
OneMovie == {1}
OneRating == {10}
OneText == {"good"}
Times == {1, 2}

(***************************************************************************)
(* Program constants.                                                      *)
(***************************************************************************)
FetchLimit == 50
SampleLimit == 10
ListLimit == 100

(***************************************************************************)
(* Python / JSON values.  A JSON object is a record that carries the set   *)
(* of keys it has; None is Null.                                           *)
(***************************************************************************)
Null == [type |-> "null", keys |-> {}, genres |-> <<>>, results |-> <<>>]
EmptyDict == [type |-> "dict", keys |-> {}, genres |-> <<>>, results |-> <<>>]
DetailsJson(gs) ==
    [type |-> "dict", keys |-> {"id", "title", "genres"}, genres |-> gs, results |-> <<>>]
DetailsNoGenres ==
    [type |-> "dict", keys |-> {"id", "title"}, genres |-> <<>>, results |-> <<>>]
Page(rs) ==
    [type |-> "dict", keys |-> {"page", "results"}, genres |-> <<>>, results |-> rs]

\* bool(x) of a dict or None
Truthy(v) == v.type = "dict" /\ v.keys # {}

Min(S) == CHOOSE x \in S : \A y \in S : x <= y
Take(s, n) == SubSeq(s, 1, IF Len(s) < n THEN Len(s) ELSE n)

(***************************************************************************)
(* The document store: a collection is the sequence of its documents in    *)
(* insertion (natural) order.                                              *)
(***************************************************************************)
\* an equality filter {"k": v, ...}: a document matches when it has every key
\* of the filter with the filter's value
Matches(doc, filter) == \A k \in DOMAIN filter : k \in DOMAIN doc /\ doc[k] = filter[k]

Matching(coll, filter) == {i \in 1..Len(coll) : Matches(coll[i], filter)}

find_one(coll, filter) ==
    IF Matching(coll, filter) = {} THEN Null ELSE coll[Min(Matching(coll, filter))]

find_to_list(coll, filter, n) == Take(SelectSeq(coll, LAMBDA doc : Matches(doc, filter)), n)

\* an insert that writes the document twice
insert_one_twice(coll, doc) == Append(Append(coll, doc), doc)

insert_one(coll, doc) == Append(coll, doc)

RemoveAt(s, i) == SubSeq(s, 1, i - 1) \o SubSeq(s, i + 1, Len(s))

\* delete_one: the first matching document goes; deleted_count is 0 or 1
delete_one(coll, filter) ==
    IF Matching(coll, filter) = {}
    THEN [coll |-> coll, deleted_count |-> 0]
    ELSE [coll |-> RemoveAt(coll, Min(Matching(coll, filter))), deleted_count |-> 1]

\* the update operators the handlers use
Set(fields) == [op |-> "$set", fields |-> fields]
Push(field, value) == [op |-> "$push", field |-> field, value |-> value]
Pull(field, cond) == [op |-> "$pull", field |-> field, cond |-> cond]

ApplyUpdate(doc, update) ==
    CASE update.op = "$set" ->
             [k \in DOMAIN doc |-> IF k \in DOMAIN update.fields THEN update.fields[k] ELSE doc[k]]
      [] update.op = "$push" ->
             [doc EXCEPT ![update.field] = Append(@, update.value)]
      [] update.op = "$pull" ->
             [doc EXCEPT ![update.field] = SelectSeq(@, LAMBDA e : ~Matches(e, update.cond))]

\* update_one: the update is applied to the first matching document only
update_one(coll, filter, update) ==
    IF Matching(coll, filter) = {}
    THEN [coll |-> coll, matched_count |-> 0, modified_count |-> 0]
    ELSE LET i == Min(Matching(coll, filter))
             d == ApplyUpdate(coll[i], update)
         IN [coll |-> [coll EXCEPT ![i] = d],
             matched_count |-> 1,
             modified_count |-> IF d = coll[i] THEN 0 ELSE 1]

(***************************************************************************)
(* Credentials and tokens.                                                 *)
(***************************************************************************)
NoSub == 0
TokenKinds == {"ok", "malformed", "expired"}
Tokens == [kind : TokenKinds, sub : UserIds \cup {NoSub}]

create_access_token(sub) == [kind |-> "ok", sub |-> sub]

\* the tokens the service can have issued: well signed, unexpired, with a subject
SessionTokens == {create_access_token(sub) : sub \in UserIds}

get_password_hash(password, salt) == [salt |-> salt, digest |-> <<salt, password>>]

verify_password(plain_password, hashed_password) ==
    get_password_hash(plain_password, hashed_password.salt) = hashed_password

\* a dependency that trusts the token's subject without looking the user up
get_current_user_unchecked(token, usrs) ==
    IF token.kind # "ok" \/ token.sub = NoSub
    THEN [ok |-> FALSE, status |-> 401, detail |-> "Invalid authentication credentials",
          user |-> Null]
    ELSE [ok |-> TRUE, status |-> 200, detail |-> "",
          user |-> [id |-> token.sub, email |-> "", hashed_password |-> Null]]

\* get_current_user: the user row of the token's subject, or a 401
get_current_user(token, usrs) ==
    IF token.kind # "ok" \/ token.sub = NoSub
    THEN [ok |-> FALSE, status |-> 401, detail |-> "Invalid authentication credentials",
          user |-> Null]
    ELSE LET user == find_one(usrs, [id |-> token.sub])
         IN IF user = Null
            THEN [ok |-> FALSE, status |-> 401, detail |-> "User not found", user |-> Null]
            ELSE [ok |-> TRUE, status |-> 200, detail |-> "", user |-> user]

(***************************************************************************)
(* Requests in flight.  pc[p] is the await point client p's request is     *)
(* at; local[p] holds the handler's local variables; resp[p] is the        *)
(* response once the handler has returned or raised.                       *)
(***************************************************************************)
NoLocal == [op |-> "none"]
NoResp == [op |-> "none"]

Response(op, status, detail, user_id, arg, body) ==
    [op |-> op, status |-> status, detail |-> detail, user_id |-> user_id,
     arg |-> arg, body |-> body]

Return(p, r) ==
    /\ pc' = [pc EXCEPT ![p] = "done"]
    /\ local' = [local EXCEPT ![p] = NoLocal]
    /\ resp' = [resp EXCEPT ![p] = r]

Goto(p, label, l) ==
    /\ pc' = [pc EXCEPT ![p] = label]
    /\ local' = [local EXCEPT ![p] = l]
    /\ UNCHANGED resp

\* p's request is at `label`; a response, once produced, is delivered before
\* any other step is taken
At(p, label) == pc[p] = label /\ \A q \in Procs : pc[q] # "done"

Init ==
    /\ users = <<>>
    /\ favorites = <<>>
    /\ watchlists = <<>>
    /\ reviews = <<>>
    /\ pc = [p \in Procs |-> "idle"]
    /\ local = [p \in Procs |-> NoLocal]
    /\ resp = [p \in Procs |-> NoResp]

\* the client takes the response; its next request can start
Reply(p) ==
    /\ pc[p] = "done"
    /\ pc' = [pc EXCEPT ![p] = "idle"]
    /\ resp' = [resp EXCEPT ![p] = NoResp]
    /\ UNCHANGED <<store, local>>

InFlight(label) == Cardinality({q \in Procs : pc[q] = label})

(***************************************************************************)
(* POST /auth/register                                                     *)
(***************************************************************************)
\* a filter on a misspelt field, which no user row has: it matches nothing
email_filter_misspelt(email) == [e_mail |-> email]

\* the filter {"email": user_data.email}
email_filter(email) == [email |-> email]

register(p, email, password) ==
    /\ At(p, "idle")
    /\ LET existing_user == find_one(users, email_filter(email))
       IN IF existing_user # Null
          THEN Return(p, Response("register", 400, "Email already registered", NoSub,
                                  [email |-> email], Null))
          ELSE /\ Len(users) + InFlight("register_insert") < MaxUsers
               /\ Goto(p, "register_insert",
                       [op |-> "register", email |-> email, password |-> password])
    /\ UNCHANGED store

register_insert(p) ==
    /\ At(p, "register_insert")
    /\ \E salt \in Salts :
         LET user_dict == [id |-> Len(users) + 1,
                           email |-> local[p].email,
                           hashed_password |-> get_password_hash(local[p].password, salt)]
         IN /\ users' = insert_one(users, user_dict)
            /\ Return(p, Response("register", 200, "", user_dict.id,
                                  [email |-> local[p].email],
                                  [access_token |-> create_access_token(user_dict.id),
                                   user |-> [id |-> user_dict.id, email |-> user_dict.email]]))
    /\ UNCHANGED <<favorites, watchlists, reviews>>

(***************************************************************************)
(* POST /auth/login, GET /auth/me                                          *)
(***************************************************************************)
\* a JSON array in a response body
List(items) == [type |-> "list", items |-> items]

\* the User model of a user row: the row without its hashed_password
UserModel(user) == [id |-> user.id, email |-> user.email]

login(p, email, password) ==
    /\ At(p, "idle")
    /\ LET user == find_one(users, email_filter(email))
           arg == [email |-> email, password |-> password]
       IN IF user = Null \/ ~verify_password(password, user.hashed_password)
          THEN Return(p, Response("login", 401, "Incorrect email or password", NoSub,
                                  arg, Null))
          ELSE Return(p, Response("login", 200, "", user.id, arg,
                                  [access_token |-> create_access_token(user.id),
                                   user |-> UserModel(user)]))
    /\ UNCHANGED store

\* Depends(get_current_user) of a request `op` with arguments args: the token is
\* decoded and the user row read; the handler body runs in a later step, with
\* the user found here
Depends(p, token, op, args) ==
    /\ At(p, "idle")
    /\ LET auth == get_current_user(token, users)
       IN IF ~auth.ok
          THEN Return(p, Response(op, auth.status, auth.detail, NoSub, args, Null))
          ELSE Goto(p, op, args @@ [op |-> op, user_id |-> auth.user.id])
    /\ UNCHANGED store

\* a request without arguments
NoArgs == <<>>

get_current_user_info(p, token) ==
    /\ At(p, "idle")
    /\ LET auth == get_current_user(token, users)
       IN IF ~auth.ok
          THEN Return(p, Response("get_current_user_info", auth.status, auth.detail, NoSub,
                                  Null, Null))
          ELSE Return(p, Response("get_current_user_info", 200, "", auth.user.id,
                                  Null, UserModel(auth.user)))
    /\ UNCHANGED store

(***************************************************************************)
(* Favorites: POST /favorites, GET /favorites, DELETE /favorites/{id}      *)
(***************************************************************************)
UserMovie(user_id, movie_id) == [user_id |-> user_id, movie_id |-> movie_id]

\* a filter on a misspelt field, which no favorite row has: it matches nothing
favorite_filter_misspelt(user_id, movie_id) == [user_id |-> user_id, movieId |-> movie_id]

\* the filter without its user_id part
favorite_filter_any_user(user_id, movie_id) == [movie_id |-> movie_id]

\* the filter {"user_id": current_user.id, "movie_id": movie_id}
favorite_filter(user_id, movie_id) == [user_id |-> user_id, movie_id |-> movie_id]

\* the empty filter {}: every document matches
owner_filter_empty(user_id) == <<>>

\* the filter {"user_id": current_user.id}
owner_filter(user_id) == [user_id |-> user_id]

add_to_favorites(p) ==
    /\ At(p, "add_to_favorites")
    /\ LET arg == [movie_id |-> local[p].movie_id]
           existing == find_one(favorites,
                                favorite_filter(local[p].user_id, local[p].movie_id))
       IN IF existing # Null
          THEN Return(p, Response("add_to_favorites", 400, "Movie already in favorites",
                                  local[p].user_id, arg, Null))
          ELSE /\ Len(favorites) + InFlight("favorites_insert") < MaxFavorites
               /\ Goto(p, "favorites_insert", local[p])
    /\ UNCHANGED store

favorites_insert(p) ==
    /\ At(p, "favorites_insert")
    /\ favorites' = insert_one(favorites, UserMovie(local[p].user_id, local[p].movie_id))
    /\ Return(p, Response("add_to_favorites", 200, "Movie added to favorites",
                          local[p].user_id, [movie_id |-> local[p].movie_id], Null))
    /\ UNCHANGED <<users, watchlists, reviews>>

get_favorites(p) ==
    /\ At(p, "get_favorites")
    /\ Return(p, Response("get_favorites", 200, "", local[p].user_id, NoArgs,
                          List(find_to_list(favorites, owner_filter(local[p].user_id),
                                            ListLimit))))
    /\ UNCHANGED store

remove_from_favorites(p) ==
    /\ At(p, "remove_from_favorites")
    /\ LET arg == [movie_id |-> local[p].movie_id]
           result == delete_one(favorites,
                                favorite_filter(local[p].user_id, local[p].movie_id))
       IN /\ favorites' = result.coll
          /\ IF result.deleted_count = 0
             THEN Return(p, Response("remove_from_favorites", 404,
                                     "Movie not found in favorites",
                                     local[p].user_id, arg, Null))
             ELSE Return(p, Response("remove_from_favorites", 200,
                                     "Movie removed from favorites",
                                     local[p].user_id, arg, Null))
    /\ UNCHANGED <<users, watchlists, reviews>>

(***************************************************************************)
(* Watchlists: POST /watchlists, POST /watchlists/{id}/movies,             *)
(* DELETE /watchlists/{id}/movies/{movie_id}                               *)
(***************************************************************************)
\* the filter without its user_id part
watchlist_filter_by_id(watchlist_id, user_id) == [id |-> watchlist_id]

\* the filter {"id": watchlist_id, "user_id": current_user.id}
watchlist_filter(watchlist_id, user_id) == [id |-> watchlist_id, user_id |-> user_id]

\* any(m.movie_id == movie_id for m in watchlist_obj.movies)
InWatchlist(movies, movie_id) == \E i \in 1..Len(movies) : movies[i].movie_id = movie_id

\* {"$push": {"movies": movie.dict()}}
push_movie(movie) == Push("movies", movie)

\* a $pull whose condition names a misspelt field: no entry matches it
pull_movie_misspelt(movie_id) == Pull("movies", [movieId |-> movie_id])

\* {"$pull": {"movies": {"movie_id": movie_id}}}: every matching entry goes
pull_movie(movie_id) == Pull("movies", [movie_id |-> movie_id])

create_watchlist(p) ==
    /\ At(p, "create_watchlist")
    /\ LET watchlist == [id |-> Len(watchlists) + 1, user_id |-> local[p].user_id,
                         movies |-> <<>>]
       IN /\ Len(watchlists) < MaxWatchlists
          /\ watchlists' = insert_one(watchlists, watchlist)
          /\ Return(p, Response("create_watchlist", 200, "", local[p].user_id,
                                [watchlist_id |-> watchlist.id], watchlist))
    /\ UNCHANGED <<users, favorites, reviews>>

get_watchlists(p) ==
    /\ At(p, "get_watchlists")
    /\ Return(p, Response("get_watchlists", 200, "", local[p].user_id, NoArgs,
                          List(find_to_list(watchlists, owner_filter(local[p].user_id),
                                            ListLimit))))
    /\ UNCHANGED store

add_movie_to_watchlist(p) ==
    /\ At(p, "add_movie_to_watchlist")
    /\ LET arg == [watchlist_id |-> local[p].watchlist_id, movie_id |-> local[p].movie_id]
           watchlist == find_one(watchlists,
                                 watchlist_filter(local[p].watchlist_id, local[p].user_id))
       IN IF watchlist = Null
          THEN Return(p, Response("add_movie_to_watchlist", 404, "Watchlist not found",
                                  local[p].user_id, arg, Null))
          ELSE IF InWatchlist(watchlist.movies, local[p].movie_id)
               THEN Return(p, Response("add_movie_to_watchlist", 400,
                                       "Movie already in watchlist",
                                       local[p].user_id, arg, Null))
               ELSE /\ Len(watchlist.movies) + InFlight("watchlist_push")
                          < MaxWatchlistMovies
                    /\ Goto(p, "watchlist_push", local[p])
    /\ UNCHANGED store

watchlist_push(p) ==
    /\ At(p, "watchlist_push")
    /\ LET movie == UserMovie(local[p].user_id, local[p].movie_id)
           result == update_one(watchlists,
                        watchlist_filter(local[p].watchlist_id, local[p].user_id),
                        push_movie(movie))
       IN /\ watchlists' = result.coll
          /\ Return(p, Response("add_movie_to_watchlist", 200, "Movie added to watchlist",
                                local[p].user_id,
                                [watchlist_id |-> local[p].watchlist_id,
                                 movie_id |-> local[p].movie_id], Null))
    /\ UNCHANGED <<users, favorites, reviews>>

remove_movie_from_watchlist(p) ==
    /\ At(p, "remove_movie_from_watchlist")
    /\ LET arg == [watchlist_id |-> local[p].watchlist_id, movie_id |-> local[p].movie_id]
           result == update_one(watchlists,
                        watchlist_filter(local[p].watchlist_id, local[p].user_id),
                        pull_movie(local[p].movie_id))
       IN /\ watchlists' = result.coll
          /\ IF result.modified_count = 0
             THEN Return(p, Response("remove_movie_from_watchlist", 404,
                                     "Movie not found in watchlist",
                                     local[p].user_id, arg, Null))
             ELSE Return(p, Response("remove_movie_from_watchlist", 200,
                                     "Movie removed from watchlist",
                                     local[p].user_id, arg, Null))
    /\ UNCHANGED <<users, favorites, reviews>>

(***************************************************************************)
(* Reviews: POST /reviews                                                  *)
(***************************************************************************)
\* the filter {"user_id": current_user.id, "movie_id": review_data.movie_id}
review_filter(user_id, movie_id) == [user_id |-> user_id, movie_id |-> movie_id]

\* rating: float = Field(ge=0, le=10)
ValidRating(rating) == 0 <= rating /\ rating <= 10

\* a $set that also resets created_at
set_review_and_time(rating, review_text) ==
    Set([rating |-> rating, review_text |-> review_text, created_at |-> 0])

\* a $set that leaves review_text out
set_review_rating_only(rating, review_text) == Set([rating |-> rating])

\* {"$set": {"rating": ..., "review_text": ...}}
set_review(rating, review_text) == Set([rating |-> rating, review_text |-> review_text])

\* the dependency, then the validation of the body against CreateReviewRequest
ReviewDepends(p, token, args) ==
    /\ At(p, "idle")
    /\ LET auth == get_current_user(token, users)
       IN IF ~auth.ok
          THEN Return(p, Response("create_review", auth.status, auth.detail, NoSub, args,
                                  Null))
          ELSE IF ~ValidRating(args.rating)
               THEN Return(p, Response("create_review", 422, "validation error",
                                       auth.user.id, args, Null))
               ELSE Goto(p, "create_review",
                         args @@ [op |-> "create_review", user_id |-> auth.user.id])
    /\ UNCHANGED store

create_review(p) ==
    /\ At(p, "create_review")
    /\ LET existing == find_one(reviews,
                                review_filter(local[p].user_id, local[p].movie_id))
       IN IF existing # Null
          THEN Goto(p, "review_update", local[p])
          ELSE /\ Len(reviews) + InFlight("review_insert") < MaxReviews
               /\ Goto(p, "review_insert", local[p])
    /\ UNCHANGED store

review_update(p) ==
    /\ At(p, "review_update")
    /\ LET result == update_one(reviews,
                        review_filter(local[p].user_id, local[p].movie_id),
                        set_review(local[p].rating, local[p].review_text))
       IN reviews' = result.coll
    /\ Goto(p, "review_reread", local[p])
    /\ UNCHANGED <<users, favorites, watchlists>>

review_reread(p) ==
    /\ At(p, "review_reread")
    /\ LET updated_review == find_one(reviews,
                                  review_filter(local[p].user_id, local[p].movie_id))
       IN Return(p, Response("create_review", 200, "", local[p].user_id,
                             [movie_id |-> local[p].movie_id, rating |-> local[p].rating,
                              review_text |-> local[p].review_text],
                             updated_review))
    /\ UNCHANGED store

review_insert(p) ==
    /\ At(p, "review_insert")
    /\ \E now \in Times :
         LET review == [id |-> Len(reviews) + 1, user_id |-> local[p].user_id,
                        movie_id |-> local[p].movie_id, rating |-> local[p].rating,
                        review_text |-> local[p].review_text, created_at |-> now]
         IN /\ reviews' = insert_one(reviews, review)
            /\ Return(p, Response("create_review", 200, "", local[p].user_id,
                                  [movie_id |-> local[p].movie_id, rating |-> local[p].rating,
                                   review_text |-> local[p].review_text],
                                  review))
    /\ UNCHANGED <<users, favorites, watchlists>>

get_user_reviews(p) ==
    /\ At(p, "get_user_reviews")
    /\ Return(p, Response("get_user_reviews", 200, "", local[p].user_id, NoArgs,
                          List(find_to_list(reviews, owner_filter(local[p].user_id),
                                            ListLimit))))
    /\ UNCHANGED store

(***************************************************************************)
(* Catalog client.  An HTTP exchange with the provider either raises (a    *)
(* transport error inside httpx) or yields a status code and a JSON body.  *)
(* Each client function returns the body on status 200 and None otherwise; *)
(* a raised transport error is not caught and leaves the function.         *)
(***************************************************************************)
NetErr == [raised |-> TRUE, status_code |-> 0, json |-> Null]
HttpResponse(status_code, json) == [raised |-> FALSE, status_code |-> status_code, json |-> json]

GenreObjs == {[id |-> g] : g \in Genres}
GenreLists == UNION {[1..n -> GenreObjs] : n \in 0..MaxGenres}
DetailOutcomes ==
    {NetErr, HttpResponse(404, Null), HttpResponse(200, DetailsNoGenres)}
        \cup {HttpResponse(200, DetailsJson(gs)) : gs \in GenreLists}
ListOutcomes ==
    {NetErr, HttpResponse(500, Null), HttpResponse(200, Page(<<>>)), HttpResponse(200, Page(<<1>>))}
DiscoverOutcomes == ListOutcomes \cup {HttpResponse(200, EmptyDict)}

get_movie_details_tmdb(o) ==
    [raised |-> o.raised,
     value |-> IF ~o.raised /\ o.status_code = 200 THEN o.json ELSE Null]

get_popular_movies_tmdb(o) ==
    [raised |-> o.raised,
     value |-> IF ~o.raised /\ o.status_code = 200 THEN o.json ELSE Null]

get_top_rated_movies_tmdb(o) ==
    [raised |-> o.raised,
     value |-> IF ~o.raised /\ o.status_code = 200 THEN o.json ELSE Null]

\* `if genre_id:` is false for None and for 0
discover_params(genre_id, sort_by) ==
    [keys |-> {"page", "sort_by"} \cup (IF genre_id # 0 THEN {"with_genres"} ELSE {}),
     page |-> 1, sort_by |-> sort_by, with_genres |-> genre_id]

discover_movies_tmdb(genre_id, sort_by, o) ==
    [params |-> discover_params(genre_id, sort_by),
     raised |-> o.raised,
     value |-> IF ~o.raised /\ o.status_code = 200 THEN o.json ELSE Null]

(***************************************************************************)
(* A Python dict, in insertion order: a sequence of key/value entries.     *)
(***************************************************************************)
DictIndex(d, k) == {i \in 1..Len(d) : d[i].key = k}

DictGet(d, k, default) ==
    IF DictIndex(d, k) = {} THEN default ELSE d[Min(DictIndex(d, k))].val

DictSet(d, k, v) ==
    IF DictIndex(d, k) = {}
    THEN Append(d, [key |-> k, val |-> v])
    ELSE [d EXCEPT ![Min(DictIndex(d, k))].val = v]

\* a selection that takes the last key whose value is largest
max_key_last(d) ==
    d[CHOOSE i \in 1..Len(d) :
          /\ \A j \in 1..Len(d) : d[j].val <= d[i].val
          /\ \A j \in (i + 1)..Len(d) : d[j].val < d[i].val].key

\* max(d, key=d.get): the first key, in iteration order, whose value is largest
max_key(d) ==
    d[Min({i \in 1..Len(d) : \A j \in 1..Len(d) : d[j].val <= d[i].val})].key

RECURSIVE count_genres(_, _)
count_genres(genre_counts, genres) ==
    IF genres = <<>>
    THEN genre_counts
    ELSE LET genre_id == Head(genres).id
         IN count_genres(DictSet(genre_counts, genre_id, DictGet(genre_counts, genre_id, 0) + 1),
                         Tail(genres))

\* the body of the loop over the sampled favorites
genre_step(genre_counts, movie_details) ==
    IF Truthy(movie_details) /\ "genres" \in movie_details.keys
    THEN count_genres(genre_counts, movie_details.genres)
    ELSE genre_counts

favorite_sample(favorite_movie_ids) == Take(favorite_movie_ids, SampleLimit)

\* occurrences of genre g in one details result, counted directly
Occurrences(movie_details, g) ==
    IF movie_details.type = "dict" /\ "genres" \in movie_details.keys
    THEN Cardinality({i \in 1..Len(movie_details.genres) : movie_details.genres[i].id = g})
    ELSE 0

(***************************************************************************)
(* GET /recommendations.  local[p].trace records the provider calls the    *)
(* request has made: the number of details calls, the occurrences of each  *)
(* genre in what they returned, and every list call with its parameters    *)
(* and result.                                                             *)
(***************************************************************************)
NoGenre == -1

NoTrace ==
    [details_calls |-> 0, details_returned |-> 0, occ |-> [g \in Genres |-> 0], calls |-> <<>>,
     fetched |-> <<>>, first_seen |-> <<>>, top_genre |-> NoGenre]

\* the genre ids met so far, each once, in the order in which they were first met
RECURSIVE FirstSeen(_, _)
FirstSeen(seen, genres) ==
    IF genres = <<>>
    THEN seen
    ELSE FirstSeen(IF \E i \in 1..Len(seen) : seen[i] = Head(genres).id
                   THEN seen
                   ELSE Append(seen, Head(genres).id),
                   Tail(genres))

\* the genre objects the loop body iterates over for one details result
IteratedGenres(movie_details) ==
    IF movie_details.type = "dict" /\ "genres" \in movie_details.keys
    THEN movie_details.genres
    ELSE <<>>

\* `if not user_favorites`
rec_first_step(user_favorites) ==
    IF user_favorites = <<>> THEN "rec_popular" ELSE "rec_details"

\* `if genre_counts`
rec_after_details(genre_counts) ==
    IF genre_counts # <<>> THEN "rec_discover" ELSE "rec_top_rated"

\* `if recommendations`
rec_after_discover(recommendations) ==
    IF Truthy(recommendations) THEN "return" ELSE "rec_top_rated"

ListCall(fn, params, r) == [fn |-> fn, params |-> params, raised |-> r.raised, value |-> r.value]
\* params={"page": page} of the popular and top-rated calls
PageParams == [keys |-> {"page"}, page |-> 1, sort_by |-> "", with_genres |-> 0]

RecResponse(p, status, trace, body) ==
    Response("get_recommendations", status, "", local[p].user_id,
             [favorite_movie_ids |-> local[p].favorite_movie_ids, trace |-> trace], body)

get_recommendations(p) ==
    /\ At(p, "get_recommendations")
    /\ LET user_favorites == find_to_list(favorites, owner_filter(local[p].user_id),
                                          FetchLimit)
           l == [op |-> "get_recommendations", user_id |-> local[p].user_id,
                 favorite_movie_ids |->
                     [i \in 1..Len(user_favorites) |-> user_favorites[i].movie_id],
                 i |-> 1, genre_counts |-> <<>>, trace |-> NoTrace]
       IN Goto(p, rec_first_step(user_favorites), l)
    /\ UNCHANGED store

rec_popular(p) ==
    /\ At(p, "rec_popular")
    /\ \E o \in ListOutcomes :
         LET r == get_popular_movies_tmdb(o)
             trace == [local[p].trace EXCEPT !.calls = Append(@, ListCall("popular", PageParams, r))]
         IN IF r.raised
            THEN Return(p, RecResponse(p, 500, trace, Null))
            ELSE Return(p, RecResponse(p, 200, trace, r.value))
    /\ UNCHANGED store

\* one iteration of the loop, the provider answering the details call with o
rec_details_got(p, o) ==
    /\ At(p, "rec_details")
    /\ LET sample == favorite_sample(local[p].favorite_movie_ids)
           movie_id == sample[local[p].i]
           r == get_movie_details_tmdb(o)
           trace == [local[p].trace EXCEPT
                        !.details_calls = @ + 1,
                        !.details_returned = IF r.raised THEN @ ELSE @ + 1,
                        !.occ = [g \in Genres |-> @[g] + Occurrences(r.value, g)],
                        !.fetched = Append(@, movie_id),
                        !.first_seen = FirstSeen(@, IteratedGenres(r.value))]
           genre_counts == genre_step(local[p].genre_counts, r.value)
           l == [local[p] EXCEPT !.i = @ + 1, !.genre_counts = genre_counts, !.trace = trace]
       IN IF r.raised
          THEN Return(p, RecResponse(p, 500, trace, Null))
          ELSE IF local[p].i < Len(sample)
               THEN Goto(p, "rec_details", l)
               ELSE Goto(p, rec_after_details(genre_counts), l)
    /\ UNCHANGED store

rec_details(p) == \E o \in DetailOutcomes : rec_details_got(p, o)

rec_discover(p) ==
    /\ At(p, "rec_discover")
    /\ \E o \in DiscoverOutcomes :
         LET top_genre == max_key(local[p].genre_counts)
             r == discover_movies_tmdb(top_genre, "vote_average.desc", o)
             trace == [local[p].trace EXCEPT
                          !.calls = Append(@, ListCall("discover", r.params, r)),
                          !.top_genre = top_genre]
         IN IF r.raised
            THEN Return(p, RecResponse(p, 500, trace, Null))
            ELSE IF rec_after_discover(r.value) = "return"
                 THEN Return(p, RecResponse(p, 200, trace, r.value))
                 ELSE Goto(p, "rec_top_rated", [local[p] EXCEPT !.trace = trace])
    /\ UNCHANGED store

rec_top_rated(p) ==
    /\ At(p, "rec_top_rated")
    /\ \E o \in ListOutcomes :
         LET r == get_top_rated_movies_tmdb(o)
             trace == [local[p].trace EXCEPT !.calls = Append(@, ListCall("top_rated", PageParams, r))]
         IN IF r.raised
            THEN Return(p, RecResponse(p, 500, trace, Null))
            ELSE Return(p, RecResponse(p, 200, trace, r.value))
    /\ UNCHANGED store

(***************************************************************************)
(* Specifications.  In a specification over SeqProcs one client sends its  *)
(* requests one after the other, so no two requests overlap; over Procs    *)
(* the requests of two clients interleave at every await.                  *)
(***************************************************************************)

RegisterStep(p) ==
    \/ \E email \in Emails, password \in Passwords : register(p, email, password)
    \/ register_insert(p)

\* the routes that take a token: a request starts in the dependency
PostFavorites(p, token, movie_id) ==
    Depends(p, token, "add_to_favorites", [movie_id |-> movie_id])

DeleteFavorite(p, token, movie_id) ==
    Depends(p, token, "remove_from_favorites", [movie_id |-> movie_id])

GetFavorites(p, token) == Depends(p, token, "get_favorites", NoArgs)

PostWatchlists(p, token) == Depends(p, token, "create_watchlist", NoArgs)

GetWatchlists(p, token) == Depends(p, token, "get_watchlists", NoArgs)

PostWatchlistMovie(p, token, watchlist_id, movie_id) ==
    Depends(p, token, "add_movie_to_watchlist",
            [watchlist_id |-> watchlist_id, movie_id |-> movie_id])

DeleteWatchlistMovie(p, token, watchlist_id, movie_id) ==
    Depends(p, token, "remove_movie_from_watchlist",
            [watchlist_id |-> watchlist_id, movie_id |-> movie_id])

PostReviews(p, token, movie_id, rating, review_text) ==
    ReviewDepends(p, token,
                  [movie_id |-> movie_id, rating |-> rating, review_text |-> review_text])

GetReviewsUser(p, token) == Depends(p, token, "get_user_reviews", NoArgs)

GetRecommendations(p, token) == Depends(p, token, "get_recommendations", NoArgs)

FavoritesStep(p) ==
    \/ \E token \in Tokens, movie_id \in Movies : PostFavorites(p, token, movie_id)
    \/ add_to_favorites(p)
    \/ favorites_insert(p)
    \/ \E token \in Tokens, movie_id \in Movies :
           DeleteFavorite(p, token, movie_id)
    \/ remove_from_favorites(p)

WatchlistIds == 1..MaxWatchlists

WatchlistsStep(p) ==
    \/ \E token \in SessionTokens : PostWatchlists(p, token)
    \/ create_watchlist(p)
    \/ \E token \in SessionTokens, watchlist_id \in WatchlistIds, movie_id \in Movies :
           PostWatchlistMovie(p, token, watchlist_id, movie_id)
    \/ add_movie_to_watchlist(p)
    \/ watchlist_push(p)
    \/ \E token \in SessionTokens, watchlist_id \in WatchlistIds, movie_id \in Movies :
           DeleteWatchlistMovie(p, token, watchlist_id, movie_id)
    \/ remove_movie_from_watchlist(p)

ReviewsStep(p) ==
    \/ \E token \in SessionTokens, movie_id \in Movies, rating \in RatingInputs,
          review_text \in ReviewTexts :
           PostReviews(p, token, movie_id, rating, review_text)
    \/ create_review(p)
    \/ review_update(p)
    \/ review_reread(p)
    \/ review_insert(p)

RecommendationsStep(p) ==
    \/ \E token \in Tokens : GetRecommendations(p, token)
    \/ get_recommendations(p)
    \/ rec_popular(p)
    \/ rec_details(p)
    \/ rec_discover(p)
    \/ rec_top_rated(p)

\* one client: registration, favorites and recommendations
SeqNext ==
    \E p \in SeqProcs :
        RegisterStep(p) \/ FavoritesStep(p) \/ RecommendationsStep(p) \/ Reply(p)

SeqSpec == Init /\ [][SeqNext]_vars

\* one client: registration and reviews
SeqReviewNext ==
    \E p \in SeqProcs : RegisterStep(p) \/ ReviewsStep(p) \/ Reply(p)

SeqReviewSpec == Init /\ [][SeqReviewNext]_vars

\* two clients: favorites
FavNext ==
    \/ \E p \in SeqProcs : RegisterStep(p)
    \/ \E p \in Procs : FavoritesStep(p) \/ Reply(p)

FavSpec == Init /\ [][FavNext]_vars

\* two clients: watchlists
WatchlistNext ==
    \/ \E p \in SeqProcs : RegisterStep(p)
    \/ \E p \in Procs : WatchlistsStep(p) \/ Reply(p)

WatchlistSpec == Init /\ [][WatchlistNext]_vars

\* two clients: favorites and reviews of one movie
StoreNext ==
    \/ \E p \in SeqProcs : RegisterStep(p)
    \/ \E p \in Procs :
          \/ \E token \in Tokens, movie_id \in OneMovie :
                 \/ PostFavorites(p, token, movie_id)
                 \/ DeleteFavorite(p, token, movie_id)
                 \/ \E rating \in OneRating, review_text \in OneText :
                        PostReviews(p, token, movie_id, rating, review_text)
          \/ add_to_favorites(p)
          \/ remove_from_favorites(p)
          \/ create_review(p)
          \/ favorites_insert(p)
          \/ review_update(p)
          \/ review_reread(p)
          \/ review_insert(p)
          \/ Reply(p)

StoreSpec == Init /\ [][StoreNext]_vars

\* the provider has no details of the movie, or details with one genre
LongDetailOutcomes ==
    {HttpResponse(404, Null)} \cup {HttpResponse(200, DetailsJson(<<[id |-> g]>>)) : g \in {1, 2}}

\* one client: every endpoint that takes a token, and login, on one movie
AuthNext ==
    \E p \in SeqProcs :
        \/ RegisterStep(p)
        \/ \E email \in Emails, password \in LoginPasswords : login(p, email, password)
        \/ \E token \in Tokens :
               \/ get_current_user_info(p, token)
               \/ GetFavorites(p, token)
               \/ PostWatchlists(p, token)
               \/ GetWatchlists(p, token)
               \/ GetReviewsUser(p, token)
               \/ GetRecommendations(p, token)
               \/ \E movie_id \in OneMovie :
                      \/ PostFavorites(p, token, movie_id)
                      \/ DeleteFavorite(p, token, movie_id)
                      \/ \E watchlist_id \in WatchlistIds :
                             \/ PostWatchlistMovie(p, token, watchlist_id, movie_id)
                             \/ DeleteWatchlistMovie(p, token, watchlist_id,
                                                                movie_id)
                      \/ \E rating \in OneRating, review_text \in OneText :
                             PostReviews(p, token, movie_id, rating, review_text)
        \/ get_favorites(p)
        \/ create_watchlist(p)
        \/ get_watchlists(p)
        \/ get_user_reviews(p)
        \/ get_recommendations(p)
        \/ add_to_favorites(p)
        \/ remove_from_favorites(p)
        \/ add_movie_to_watchlist(p)
        \/ remove_movie_from_watchlist(p)
        \/ create_review(p)
        \/ favorites_insert(p)
        \/ watchlist_push(p)
        \/ review_update(p)
        \/ review_reread(p)
        \/ review_insert(p)
        \/ rec_popular(p)
        \/ \E o \in LongDetailOutcomes : rec_details_got(p, o)
        \/ rec_discover(p)
        \/ rec_top_rated(p)
        \/ Reply(p)

AuthSpec == Init /\ [][AuthNext]_vars

\* A store in which one user has added many favorites, one after the other:
\* one more than the recommendation sample, or one more than a listing returns.
LongSizes == {SampleLimit + 1, ListLimit + 1}

LongInit ==
    /\ users = <<[id |-> 1, email |-> "a@x.io",
                  hashed_password |-> get_password_hash("pw1", "s1")]>>
    /\ \E n \in LongSizes : favorites = [i \in 1..n |-> UserMovie(1, i)]
    /\ watchlists = <<>>
    /\ reviews = <<>>
    /\ pc = [p \in Procs |-> "idle"]
    /\ local = [p \in Procs |-> NoLocal]
    /\ resp = [p \in Procs |-> NoResp]

\* one client: listing, removal and recommendations over the long favorites
LongNext ==
    \E p \in SeqProcs :
        \/ \E token \in Tokens :
               \/ GetFavorites(p, token)
               \/ GetRecommendations(p, token)
               \/ \E movie_id \in Movies : DeleteFavorite(p, token, movie_id)
        \/ get_favorites(p)
        \/ get_recommendations(p)
        \/ remove_from_favorites(p)
        \/ \E o \in LongDetailOutcomes : rec_details_got(p, o)
        \/ rec_discover(p)
        \/ rec_top_rated(p)
        \/ Reply(p)

LongSpec == LongInit /\ [][LongNext]_vars

\* two clients: registration and login
RegisterNext ==
    \E p \in Procs :
        \/ RegisterStep(p)
        \/ \E email \in Emails, password \in LoginPasswords : login(p, email, password)
        \/ Reply(p)

RegisterSpec == Init /\ [][RegisterNext]_vars

(***************************************************************************)
(* Properties.                                                             *)
(***************************************************************************)
FavoritesOf(user_id) == SelectSeq(favorites, LAMBDA f : f.user_id = user_id)
FavoriteRows(favs, user_id, movie_id) ==
    {i \in 1..Len(favs) : favs[i].user_id = user_id /\ favs[i].movie_id = movie_id}
SampleSize(user_id) ==
    IF Len(FavoritesOf(user_id)) < SampleLimit THEN Len(FavoritesOf(user_id)) ELSE SampleLimit

\* p's get_recommendations request, past authentication, has returned or raised
RecDone(p) ==
    pc[p] = "done" /\ resp[p].op = "get_recommendations" /\ resp[p].status # 401

CallsTo(trace, fn) == {i \in 1..Len(trace.calls) : trace.calls[i].fn = fn}

\* the handler's outcome is the outcome of list call c: its value, or its exception
PassesThrough(r, c) ==
    IF c.raised THEN r.status = 500 ELSE r.status = 200 /\ r.body = c.value

\* C1: a user with no favorite row gets exactly the outcome of the popular-movies
\* call, and no movie-details, discover or top-rated call is made.
C1_PopularFallback ==
    \A p \in Procs :
        (RecDone(p) /\ FavoritesOf(resp[p].user_id) = <<>>) =>
            LET t == resp[p].arg.trace
            IN /\ t.details_calls = 0
               /\ Len(t.calls) = 1
               /\ t.calls[1].fn = "popular"
               /\ PassesThrough(resp[p], t.calls[1])

C1_Witness ==
    \E p \in Procs :
        /\ RecDone(p)
        /\ FavoritesOf(resp[p].user_id) = <<>>
        /\ favorites # <<>>
        /\ resp[p].body = Page(<<1>>)

\* C2 (as claimed): for a user with a favorite, when no movie-details call of the
\* request yielded genre data (the call failed, or its response had no genres or
\* an empty genres list), discover is never called and the response is the
\* outcome of the top-rated call.
C2_TopRatedWhenNoGenreData ==
    \A p \in Procs :
        (/\ RecDone(p)
         /\ FavoritesOf(resp[p].user_id) # <<>>
         /\ \A g \in Genres : resp[p].arg.trace.occ[g] = 0) =>
            LET t == resp[p].arg.trace
            IN /\ CallsTo(t, "discover") = {}
               /\ Len(t.calls) = 1
               /\ t.calls[1].fn = "top_rated"
               /\ PassesThrough(resp[p], t.calls[1])

\* the genres whose occurrence count over the sampled favorites is largest
TopGenres(occ) == {g \in Genres : occ[g] > 0 /\ \A h \in Genres : occ[h] <= occ[g]}

\* C3 (as claimed): when every sampled details call returned and at least one
\* yielded genre data, discover is called exactly once, filtered by a genre of
\* maximal occurrence count and sorted by vote_average.desc, whatever the genre
\* identifier is.
C3_DiscoverByTopGenre ==
    \A p \in Procs :
        (/\ RecDone(p)
         /\ resp[p].arg.trace.details_returned = SampleSize(resp[p].user_id)
         /\ \E g \in Genres : resp[p].arg.trace.occ[g] > 0) =>
            LET t == resp[p].arg.trace
            IN /\ Cardinality(CallsTo(t, "discover")) = 1
               /\ \A i \in CallsTo(t, "discover") :
                      /\ "with_genres" \in t.calls[i].params.keys
                      /\ t.calls[i].params.with_genres \in TopGenres(t.occ)
                      /\ t.calls[i].params.sort_by = "vote_average.desc"

\* no provider call of the request raised a transport error
ProviderReachable(trace) ==
    /\ trace.details_returned = trace.details_calls
    /\ \A i \in 1..Len(trace.calls) : ~trace.calls[i].raised

\* C4 (as claimed): whenever the provider is reachable, the request answers 200
\* with a movie list, never null and never an error.
C4_AlwaysSomeList ==
    \A p \in Procs :
        (RecDone(p) /\ ProviderReachable(resp[p].arg.trace)) =>
            /\ resp[p].status = 200
            /\ resp[p].body # Null
            /\ "results" \in resp[p].body.keys

\* the body of p's request `op`, authenticated as user_id, takes its first step
Starts(p, op, user_id) ==
    /\ pc[p] = op
    /\ pc'[p] # op
    /\ local[p].user_id = user_id

StartedMovie(p) == local[p].movie_id

\* C5: with one request at a time, add_to_favorites for a pair that has a row
\* answers 400 and leaves favorites unchanged, and no pair ever has two rows.
C5_DuplicateFavoriteRejected ==
    [][/\ \A p \in Procs, u \in UserIds :
            (/\ Starts(p, "add_to_favorites", u)
             /\ FavoriteRows(favorites, u, StartedMovie(p)) # {}) =>
                /\ pc'[p] = "done"
                /\ resp'[p].status = 400
                /\ favorites' = favorites
       /\ \A u \in UserIds, m \in Movies : Cardinality(FavoriteRows(favorites', u, m)) <= 1
      ]_vars

C5_Witness ==
    \E p \in Procs :
        /\ pc[p] = "done"
        /\ resp[p].op = "add_to_favorites"
        /\ resp[p].status = 400
        /\ Cardinality(FavoriteRows(favorites, resp[p].user_id, resp[p].arg.movie_id)) = 1

ReviewRows(revs, user_id, movie_id) ==
    {i \in 1..Len(revs) : revs[i].user_id = user_id /\ revs[i].movie_id = movie_id}

\* the pair has exactly one review row in revs, and it carries rating and text
OneReviewWith(revs, user_id, movie_id, rating, review_text) ==
    /\ Cardinality(ReviewRows(revs, user_id, movie_id)) = 1
    /\ \A i \in ReviewRows(revs, user_id, movie_id) :
           revs[i].rating = rating /\ revs[i].review_text = review_text

\* C6: with one request at a time, create_review for a pair that has a review
\* takes the update path, which inserts nothing and leaves exactly one row for
\* the pair, carrying the new rating and text; that row is what is returned.
C6_ReviewUpsert ==
    [][\A p \in Procs :
          /\ \A u \in UserIds :
                 (/\ Starts(p, "create_review", u)
                  /\ ReviewRows(reviews, u, StartedMovie(p)) # {}) =>
                     pc'[p] = "review_update"
          /\ pc[p] = "review_update" /\ pc'[p] # pc[p] =>
                 /\ Len(reviews') = Len(reviews)
                 /\ OneReviewWith(reviews', local[p].user_id, local[p].movie_id,
                                  local[p].rating, local[p].review_text)
          /\ pc[p] = "review_reread" /\ pc'[p] = "done" =>
                 /\ reviews' = reviews
                 /\ resp'[p].status = 200
                 /\ OneReviewWith(reviews', local[p].user_id, local[p].movie_id,
                                  local[p].rating, local[p].review_text)
                 /\ resp'[p].body \in {reviews'[i] : i \in 1..Len(reviews')}
                 /\ resp'[p].body.rating = local[p].rating
                 /\ resp'[p].body.review_text = local[p].review_text
      ]_vars

C6_Witness ==
    \E p \in Procs :
        /\ pc[p] = "review_reread"
        /\ Len(reviews) = 2
        /\ OneReviewWith(reviews, local[p].user_id, local[p].movie_id, 10, "good")

\* C7: remove_from_favorites for a pair with no row answers 404 and leaves the
\* favorites collection, other users' rows of the same movie included, unchanged.
C7_RemoveMissingFavorite ==
    [][\A p \in Procs, u \in UserIds :
          (/\ Starts(p, "remove_from_favorites", u)
           /\ FavoriteRows(favorites, u, StartedMovie(p)) = {}) =>
              /\ resp'[p].status = 404
              /\ favorites' = favorites
      ]_vars

C7_Witness ==
    \E p \in Procs :
        /\ pc[p] = "done"
        /\ resp[p].op = "remove_from_favorites"
        /\ resp[p].status = 404
        /\ \E i \in 1..Len(favorites) :
               /\ favorites[i].movie_id = resp[p].arg.movie_id
               /\ favorites[i].user_id # resp[p].user_id

UserRows(usrs, email) == {i \in 1..Len(usrs) : usrs[i].email = email}

\* p's register request starts at this step
RegisterStarts(p, email) ==
    /\ pc[p] = "idle"
    /\ \/ pc'[p] = "done" /\ resp'[p].op = "register" /\ resp'[p].arg.email = email
       \/ pc'[p] = "register_insert" /\ local'[p].email = email

\* C8: with one request at a time, register with an email that has a user row
\* answers 400, creates no user row and issues no token.
C8_DuplicateEmailRejected ==
    [][/\ \A p \in Procs, email \in Emails :
            (RegisterStarts(p, email) /\ UserRows(users, email) # {}) =>
                /\ pc'[p] = "done"
                /\ resp'[p].status = 400
                /\ resp'[p].body = Null
                /\ users' = users
       /\ \A email \in Emails : Cardinality(UserRows(users', email)) <= 1
      ]_vars

C8_Witness ==
    \E p \in Procs :
        /\ pc[p] = "done"
        /\ resp[p].op = "register"
        /\ resp[p].status = 400
        /\ Cardinality(UserRows(users, resp[p].arg.email)) = 1

\* C9 (as claimed): in every reachable state no watchlist holds two entries
\* with the same movie_id.
C9_NoDuplicateWatchlistMovie ==
    \A w \in 1..Len(watchlists) :
        \A i, j \in 1..Len(watchlists[w].movies) :
            watchlists[w].movies[i].movie_id = watchlists[w].movies[j].movie_id => i = j

WatchlistOps == {"add_movie_to_watchlist", "remove_movie_from_watchlist"}

\* watchlist watchlist_id exists and belongs to someone other than user_id
OwnedByOther(wls, watchlist_id, user_id) ==
    \E w \in 1..Len(wls) : wls[w].id = watchlist_id /\ wls[w].user_id # user_id

\* C10: adding to or removing from another user's watchlist answers 404 and
\* changes no watchlist, and a watchlist's movie list changes only in a step of
\* a request authenticated as its owner.
C10_WatchlistOwnership ==
    [][/\ \A p \in Procs, u \in UserIds, op \in WatchlistOps :
            (/\ Starts(p, op, u)
             /\ OwnedByOther(watchlists, local[p].watchlist_id, u)) =>
                /\ pc'[p] = "done"
                /\ resp'[p].status = 404
                /\ watchlists' = watchlists
       /\ \A w \in 1..Len(watchlists) :
            (w > Len(watchlists') \/ watchlists'[w].movies # watchlists[w].movies) =>
                \E p \in Procs :
                    \/ /\ pc[p] = "watchlist_push"
                       /\ pc'[p] = "done"
                       /\ local[p].user_id = watchlists[w].user_id
                    \/ Starts(p, "remove_movie_from_watchlist", watchlists[w].user_id)
      ]_vars

C10_Witness ==
    \E p \in Procs :
        /\ pc[p] = "done"
        /\ resp[p].op = "remove_movie_from_watchlist"
        /\ resp[p].status = 404
        /\ \E w \in 1..Len(watchlists) :
               /\ watchlists[w].id = resp[p].arg.watchlist_id
               /\ watchlists[w].user_id # resp[p].user_id
               /\ InWatchlist(watchlists[w].movies, resp[p].arg.movie_id)

\* the ids of the user rows
UserRowIds == {users[i].id : i \in 1..Len(users)}

\* C11: in every reachable state, every favorite row and every review row has a
\* user_id that is the id of an existing user row.
C11_RowsHaveUser ==
    /\ \A i \in 1..Len(favorites) : favorites[i].user_id \in UserRowIds
    /\ \A i \in 1..Len(reviews) : reviews[i].user_id \in UserRowIds

\* an add_to_favorites or create_review request carrying a well-signed token of a
\* user id without a row was turned away, while rows of both kinds exist
C11_Witness ==
    /\ favorites # <<>>
    /\ reviews # <<>>
    /\ \E p \in Procs :
           /\ pc[p] = "done"
           /\ resp[p].op \in {"add_to_favorites", "create_review"}
           /\ resp[p].detail = "User not found"

\* a token that is malformed, expired, without a subject, or whose subject has no
\* user row
BadToken(token) ==
    \/ token.kind \in {"malformed", "expired"}
    \/ token.sub = NoSub
    \/ token.sub \notin UserRowIds

\* this step answers p's request `op` with a 401 straight from the idle state,
\* with no handler step, no provider call and no change of the store
AuthFailure(p, op) ==
    /\ pc[p] = "idle"
    /\ pc'[p] = "done"
    /\ local'[p] = NoLocal
    /\ resp'[p].op = op
    /\ resp'[p].status = 401
    /\ resp'[p].body = Null
    /\ UNCHANGED store

\* this step is the first step of a request `op` of client p
FirstStepOf(p, op) == pc[p] = "idle" /\ (resp'[p].op = op \/ local'[p].op = op)

\* C12: every operation that takes a token (me, favorites, watchlists, reviews,
\* recommendations), invoked with a token that is malformed, expired, without a
\* subject, or naming a user id with no user row, answers 401 without running
\* the handler body and leaves the store unchanged.
C12_BadTokenRejected ==
    [][\A p \in Procs :
        /\ FirstStepOf(p, "get_current_user_info") =>
              \A token \in Tokens :
                  (BadToken(token) /\ get_current_user_info(p, token)) =>
                      AuthFailure(p, "get_current_user_info")
        /\ FirstStepOf(p, "get_favorites") =>
              \A token \in Tokens :
                  (BadToken(token) /\ GetFavorites(p, token)) =>
                      AuthFailure(p, "get_favorites")
        /\ FirstStepOf(p, "create_watchlist") =>
              \A token \in Tokens :
                  (BadToken(token) /\ PostWatchlists(p, token)) =>
                      AuthFailure(p, "create_watchlist")
        /\ FirstStepOf(p, "get_watchlists") =>
              \A token \in Tokens :
                  (BadToken(token) /\ GetWatchlists(p, token)) =>
                      AuthFailure(p, "get_watchlists")
        /\ FirstStepOf(p, "get_user_reviews") =>
              \A token \in Tokens :
                  (BadToken(token) /\ GetReviewsUser(p, token)) =>
                      AuthFailure(p, "get_user_reviews")
        /\ FirstStepOf(p, "get_recommendations") =>
              \A token \in Tokens :
                  (BadToken(token) /\ GetRecommendations(p, token)) =>
                      AuthFailure(p, "get_recommendations")
        /\ FirstStepOf(p, "add_to_favorites") =>
              \A token \in Tokens, movie_id \in Movies :
                  (BadToken(token) /\ PostFavorites(p, token, movie_id)) =>
                      AuthFailure(p, "add_to_favorites")
        /\ FirstStepOf(p, "remove_from_favorites") =>
              \A token \in Tokens, movie_id \in Movies :
                  (BadToken(token) /\ DeleteFavorite(p, token, movie_id)) =>
                      AuthFailure(p, "remove_from_favorites")
        /\ FirstStepOf(p, "add_movie_to_watchlist") =>
              \A token \in Tokens, watchlist_id \in WatchlistIds, movie_id \in Movies :
                  (BadToken(token)
                     /\ PostWatchlistMovie(p, token, watchlist_id, movie_id)) =>
                      AuthFailure(p, "add_movie_to_watchlist")
        /\ FirstStepOf(p, "remove_movie_from_watchlist") =>
              \A token \in Tokens, watchlist_id \in WatchlistIds, movie_id \in Movies :
                  (BadToken(token)
                     /\ DeleteWatchlistMovie(p, token, watchlist_id, movie_id)) =>
                      AuthFailure(p, "remove_movie_from_watchlist")
        /\ FirstStepOf(p, "create_review") =>
              \A token \in Tokens, movie_id \in Movies, rating \in RatingInputs,
                 review_text \in ReviewTexts :
                  (BadToken(token)
                     /\ PostReviews(p, token, movie_id, rating, review_text)) =>
                      AuthFailure(p, "create_review")
        \* a handler body runs only for a client the dependency has authenticated
        /\ (pc[p] \notin {"idle", "done"} /\ pc'[p] # pc[p] /\ "user_id" \in DOMAIN local[p]) =>
              local[p].user_id \in UserRowIds]_vars

\* a request carrying a well-signed token of a user id without a row was answered
\* 401 while every collection holds rows
C12_Witness ==
    /\ favorites # <<>>
    /\ watchlists # <<>>
    /\ reviews # <<>>
    /\ \E p \in Procs :
           /\ pc[p] = "done"
           /\ resp[p].op = "remove_movie_from_watchlist"
           /\ resp[p].status = 401
           /\ resp[p].detail = "User not found"

\* the ids of the rows of usrs registered with this email and this password
RegisteredIds(usrs, email, password) ==
    {usrs[i].id : i \in {j \in 1..Len(usrs) :
                            /\ usrs[j].email = email
                            /\ \E salt \in Salts :
                                   usrs[j].hashed_password = get_password_hash(password, salt)}}

\* C13 (as claimed): a registration that succeeds creates a user row and answers
\* with a token for its id; from then on login with the same email and password
\* answers 200 with a token whose subject is the id of the row that
\* registration created, whichever successful registration of these credentials
\* it was; login with an unknown email or a non-matching password answers 401;
\* login never changes the store.
C13_LoginAfterRegister ==
    [][\A p \in Procs :
          /\ (pc[p] = "register_insert" /\ pc'[p] = "done") =>
                 /\ resp'[p].status = 200
                 /\ Len(users') = Len(users) + 1
                 /\ users'[Len(users')].id = resp'[p].user_id
                 /\ resp'[p].user_id \in
                        RegisteredIds(users', local[p].email, local[p].password)
                 /\ resp'[p].body.access_token = create_access_token(resp'[p].user_id)
          /\ (pc[p] = "idle" /\ resp'[p].op = "login") =>
                 /\ UNCHANGED store
                 /\ pc'[p] = "done"
                 /\ LET ids == RegisteredIds(users, resp'[p].arg.email, resp'[p].arg.password)
                    IN IF ids # {}
                       THEN /\ resp'[p].status = 200
                            /\ ids = {resp'[p].body.access_token.sub}
                            /\ resp'[p].body.access_token.kind = "ok"
                            /\ resp'[p].body.user.id = resp'[p].body.access_token.sub
                            /\ resp'[p].body.user.email = resp'[p].arg.email
                       ELSE /\ resp'[p].status = 401
                            /\ resp'[p].body = Null]_vars

\* favs without the rows of the pair (user_id, movie_id)
WithoutPair(favs, user_id, movie_id) ==
    SelectSeq(favs, LAMBDA f : ~(f.user_id = user_id /\ f.movie_id = movie_id))

\* the rows of favs that belong to user_id, in order
RowsOfUser(favs, user_id) == SelectSeq(favs, LAMBDA f : f.user_id = user_id)

\* C14 (as claimed): with one request at a time, add_to_favorites for a pair
\* without a row succeeds and adds exactly one row; get_favorites lists every
\* row of the caller, a newly added one included, however many there are;
\* remove_from_favorites of a pair with a row succeeds and
\* leaves the caller's favorites as they were before the pair was added, with no
\* row of the pair left, so that the pair can be added again.
C14_AddListRemove ==
    [][\A p \in SeqProcs, u \in UserIds :
          /\ (/\ Starts(p, "add_to_favorites", u)
              /\ FavoriteRows(favorites, u, StartedMovie(p)) = {}) =>
                 pc'[p] = "favorites_insert"
          /\ (pc[p] = "favorites_insert" /\ local[p].user_id = u /\ pc'[p] = "done") =>
                 LET m == local[p].movie_id
                 IN /\ resp'[p].status = 200
                    /\ FavoriteRows(favorites, u, m) = {}
                    /\ Len(favorites') = Len(favorites) + 1
                    /\ SubSeq(favorites', 1, Len(favorites)) = favorites
                    /\ Cardinality(FavoriteRows(favorites', u, m)) = 1
                    /\ RowsOfUser(WithoutPair(favorites', u, m), u) = RowsOfUser(favorites, u)
          /\ (Starts(p, "get_favorites", u) /\ resp'[p].status = 200) =>
                 /\ resp'[p].body = List(RowsOfUser(favorites, u))
                 /\ UNCHANGED store
          /\ (/\ Starts(p, "remove_from_favorites", u)
              /\ FavoriteRows(favorites, u, StartedMovie(p)) # {}) =>
                 /\ resp'[p].status = 200
                 /\ favorites' = WithoutPair(favorites, u, StartedMovie(p))
                 /\ FavoriteRows(favorites', u, StartedMovie(p)) = {}]_vars

\* the positions of the watchlists with this id that belong to user_id
OwnWatchlists(wls, watchlist_id, user_id) ==
    {w \in 1..Len(wls) : wls[w].id = watchlist_id /\ wls[w].user_id = user_id}

\* the movie entries without those of movie_id, in order
WithoutMovie(movies, movie_id) == SelectSeq(movies, LAMBDA e : e.movie_id # movie_id)

ReturnedNothing(c) ==
    \/ c.raised
    \/ c.value = Null
    \/ c.value.type = "dict" /\ "results" \in c.value.keys /\ c.value.results = <<>>

\* C16 (as claimed): when the discover call of a request returned nothing (it
\* failed, or it succeeded with an empty result page), the request goes on to
\* the top-rated call and answers with that call's outcome.
C16_TopRatedWhenDiscoverEmpty ==
    \A p \in Procs :
        RecDone(p) =>
            LET t == resp[p].arg.trace
            IN \A i \in CallsTo(t, "discover") :
                   ReturnedNothing(t.calls[i]) =>
                       /\ Len(t.calls) = i + 1
                       /\ t.calls[i + 1].fn = "top_rated"
                       /\ PassesThrough(resp[p], t.calls[i + 1])

\* C17 (as claimed): whatever happens to the movie-details calls, a request of
\* a user with favorites fetches every sampled favorite, goes on to a list call
\* and answers with the outcome of its last list call.
C17_DetailsFailureSkipped ==
    \A p \in Procs :
        (RecDone(p) /\ FavoritesOf(resp[p].user_id) # <<>>) =>
            LET t == resp[p].arg.trace
            IN /\ t.details_calls = SampleSize(resp[p].user_id)
               /\ t.calls # <<>>
               /\ PassesThrough(resp[p], t.calls[Len(t.calls)])

\* the element of S that comes first in seq
FirstAmong(seq, S) == seq[Min({i \in 1..Len(seq) : seq[i] \in S})]

\* C18: the genre a request selects is, among the genres of highest occurrence
\* count, the one met first while iterating the sampled favorites and their
\* genre lists in order.
C18_TieBreakFirstSeen ==
    \A p \in Procs :
        (RecDone(p) /\ CallsTo(resp[p].arg.trace, "discover") # {}) =>
            LET t == resp[p].arg.trace
            IN /\ TopGenres(t.occ) # {}
               /\ t.top_genre = FirstAmong(t.first_seen, TopGenres(t.occ))

\* two genres tie for the highest count and the one selected, met first, is
\* neither the one met last nor the smaller id
C18_Witness ==
    \E p \in Procs :
        /\ RecDone(p)
        /\ CallsTo(resp[p].arg.trace, "discover") # {}
        /\ resp[p].arg.trace.occ[1] = resp[p].arg.trace.occ[2]
        /\ resp[p].arg.trace.occ[0] < resp[p].arg.trace.occ[2]
        /\ resp[p].arg.trace.first_seen[1] = 2
        /\ resp[p].arg.trace.top_genre = 2

\* the n last rows of favs: the n most recently added
MostRecent(favs, n) == IF Len(favs) <= n THEN favs ELSE SubSeq(favs, Len(favs) - n + 1, Len(favs))

\* C19 (as claimed): a request makes at most 10 movie-details calls, and every
\* movie whose details it fetches, and so every movie that can influence the
\* selected genre, is one of the 10 most recently added favorites of the user.
C19_SampleMostRecent ==
    \A p \in Procs :
        RecDone(p) =>
            LET t == resp[p].arg.trace
                recent == MostRecent(FavoritesOf(resp[p].user_id), SampleLimit)
            IN /\ t.details_calls <= SampleLimit
               /\ \A i \in 1..Len(t.fetched) :
                      \E j \in 1..Len(recent) : recent[j].movie_id = t.fetched[i]

\* C20: add_to_favorites inserts without looking again: the insert step of a
\* request that passed the existence check answers 200 and adds one more row of
\* its pair, also when an overlapping request has inserted a row of the same
\* pair in between, so that two successful adds leave two rows of one pair.
C20_FavoriteRace ==
    [][\A p \in Procs :
          (pc[p] = "favorites_insert" /\ pc'[p] # "favorites_insert") =>
              LET u == local[p].user_id
                  m == local[p].movie_id
              IN /\ pc'[p] = "done"
                 /\ resp'[p].op = "add_to_favorites"
                 /\ resp'[p].status = 200
                 /\ Cardinality(FavoriteRows(favorites', u, m))
                        = Cardinality(FavoriteRows(favorites, u, m)) + 1]_vars

\* the second of two overlapping adds of one pair has reported success and the
\* pair has two rows
C20_Witness ==
    \E p \in Procs :
        /\ pc[p] = "done"
        /\ resp[p].op = "add_to_favorites"
        /\ resp[p].status = 200
        /\ Cardinality(FavoriteRows(favorites, resp[p].user_id, resp[p].arg.movie_id)) = 2

\* C21 (as claimed): in every reachable state, states reached by overlapping
\* create_review requests of one user for one movie included, no (user, movie)
\* pair has more than one review row.
C21_OneReviewPerPair ==
    \A i, j \in 1..Len(reviews) :
        (reviews[i].user_id = reviews[j].user_id /\ reviews[i].movie_id = reviews[j].movie_id)
            => i = j

\* C22 (as claimed): in every reachable state, states reached by overlapping
\* register requests included, no two user rows have the same email and no two
\* user rows have the same id.
C22_UniqueUsers ==
    \A i, j \in 1..Len(users) :
        (users[i].email = users[j].email \/ users[i].id = users[j].id) => i = j

\* C23: the update step of create_review changes, in the one review row it
\* updates, only rating and review_text: the row's id, user_id, movie_id and
\* created_at keep their values; every other review row, other users' reviews
\* of the same movie and the same user's reviews of other movies included, and
\* every other collection are unchanged.
C23_UpdateFrame ==
    [][\A p \in Procs :
          (pc[p] = "review_update" /\ pc'[p] # pc[p]) =>
              LET rows == ReviewRows(reviews, local[p].user_id, local[p].movie_id)
              IN /\ UNCHANGED <<users, favorites, watchlists>>
                 /\ Len(reviews') = Len(reviews)
                 /\ rows # {}
                 /\ \A i \in 1..Len(reviews) :
                        IF i = Min(rows)
                        THEN /\ reviews'[i].id = reviews[i].id
                             /\ reviews'[i].user_id = reviews[i].user_id
                             /\ reviews'[i].movie_id = reviews[i].movie_id
                             /\ reviews'[i].created_at = reviews[i].created_at
                             /\ reviews'[i].rating = local[p].rating
                             /\ reviews'[i].review_text = local[p].review_text
                             /\ DOMAIN reviews'[i] = DOMAIN reviews[i]
                        ELSE reviews'[i] = reviews[i]]_vars

\* a review was updated to a new rating and text while another user's review of
\* the same movie, created later, is in the collection
C23_Witness ==
    \E p \in Procs :
        /\ pc[p] = "review_reread"
        /\ Len(reviews) = 2
        /\ reviews[1].user_id = local[p].user_id
        /\ reviews[1].movie_id = local[p].movie_id
        /\ reviews[1].rating = 0
        /\ reviews[1].review_text = "null"
        /\ reviews[1].created_at = 1
        /\ reviews[2].user_id # local[p].user_id
        /\ reviews[2].movie_id = local[p].movie_id
        /\ reviews[2].rating = 10
        /\ reviews[2].created_at = 2

====
